---------------------------- MODULE Spec2Model ----------------------------
(***************************************************************************)
(* A model of sciunit's comparators (RatioComparator, ZComparator), of the *)
(* ZScoreToBooleanScore converter, and of the module-search-path handling  *)
(* of the command line (prep / cleanup), as far as the source shows them.  *)
(*                                                                         *)
(* Numbers.  A Python number is a record [t, n, d]: t is "int" or "float", *)
(* n/d is its value as a reduced fraction with d > 0 (d = 1 for an int).   *)
(* Floats are modelled by their exact rational value; rounding to a double *)
(* is not modelled.                                                        *)
(***************************************************************************)
EXTENDS Integers, Sequences, FiniteSets, TLC

VARIABLES
    py,            \* major version of the interpreter running the package (2 or 3)
    classStats,    \* class-level required_* attributes of sciunit.Comparator
    cmp,           \* comparator objects, by object id
    out,           \* what the latest judge() of the sequential client gave
    shared,        \* whether the two tasks use the same comparator object
    pc,            \* each task's position: "start", "assigned", "done"
    own,           \* each task's own statistics bags
    res,           \* what each task's compute() returned
    zin,           \* the Score handed to the converter
    params,        \* the params argument handed to the converter
    conv,          \* what the converter gave
    sys_path,      \* sys.path
    environ,       \* os.environ['SCIDASH_HOME']
    config_root,   \* the .sciunit file's [root] path
    directory,     \* args.directory
    before,        \* sys.path as it was when main started
    preps,         \* how many times prep has run in this process
    mpc            \* main's position

vars == <<py, classStats, cmp, out, shared, pc, own, res, zin, params, conv,
          sys_path, environ, config_root, directory, before, preps, mpc>>

cmpVars == <<py, classStats, cmp, out, shared, pc, own, res>>
convVars == <<zin, params, conv>>
cliVars == <<sys_path, environ, config_root, directory, before, preps, mpc>>

----------------------------------------------------------------------------
(* Bounds *)

MaxStat == 4       \* statistics are drawn from -MaxStat .. MaxStat
MaxTaskStat == 2   \* the concurrent tasks' statistics are drawn from 1 .. MaxTaskStat
MaxScore == 5      \* converter inputs are the halves -MaxScore/2 .. MaxScore/2
MaxThresh == 2     \* thresholds are drawn from 0 .. MaxThresh (and halves)
MaxPreps == 2      \* prep runs at most this many times before the run's body

----------------------------------------------------------------------------
(* Python numbers *)

Abs(i) == IF i < 0 THEN -i ELSE i

RECURSIVE Gcd(_, _)
Gcd(a, b) == IF b = 0 THEN a ELSE Gcd(b, a % b)

\* The number n/d of type t, in lowest terms with a positive denominator.
Num(t, n, d) ==
    LET g == Gcd(Abs(n), Abs(d))
        s == IF d < 0 THEN -1 ELSE 1
    IN  [t |-> t, n |-> (s * n) \div g, d |-> (s * d) \div g]

PyInt(i) == [t |-> "int", n |-> i, d |-> 1]
PyFloat(n, d) == Num("float", n, d)

\* The type of a binary operation's result: int only when both operands are.
Coerce(a, b) == IF a.t = "int" /\ b.t = "int" THEN "int" ELSE "float"

PyAdd(a, b) == Num(Coerce(a, b), a.n * b.d + b.n * a.d, a.d * b.d)
PySub(a, b) == Num(Coerce(a, b), a.n * b.d - b.n * a.d, a.d * b.d)
PyNeg(a) == [a EXCEPT !.n = -a.n]
PyLe(a, b) == a.n * b.d <= b.n * a.d

\* Python's // on ints: the floor of the quotient, for either sign of b.
FloorDiv(a, b) == IF b > 0 THEN a \div b ELSE (-a) \div (-b)

\* Python's a / b for b # 0.  Two ints divide by floor under Python 2 (no
\* "from __future__ import division" in comparators.py) and truly under
\* Python 3; anything else divides truly, giving a float.
PyDiv(v, a, b) ==
    IF a.t = "int" /\ b.t = "int" /\ v = 2
    THEN PyInt(FloorDiv(a.n, b.n))
    ELSE PyFloat(a.n * b.d, a.d * b.n)

IsZero(a) == a.n = 0

----------------------------------------------------------------------------
(* Outcomes of a call: a returned value or a raised exception.  arith is    *)
(* the number of arithmetic operations of compute() carried out in the call.*)

NoOut == [kind |-> "none"]
Returned(v, k) == [kind |-> "value", val |-> v, arith |-> k]
Raised(e, k) == [kind |-> "raise", exc |-> e, arith |-> k]

----------------------------------------------------------------------------
(* Comparators *)

Kinds == {"RatioComparator", "ZComparator"}
Instances == {1, 2}
\* The object the sequential client uses: the first one.
Main == CHOOSE i \in Instances : \A j \in Instances : i <= j
NoObj == [kind |-> "none"]
NoStats == [assigned |-> FALSE]
Stats(bag) == [assigned |-> TRUE, bag |-> bag]

\* sciunit.Comparator's constructor: empty required-statistics sequences.
Comparator__init__(kind) ==
    [kind |-> kind,
     required_model_stats |-> <<>>,
     required_reference_stats |-> <<>>,
     model_stats |-> NoStats,
     reference_stats |-> NoStats]

RatioComparator__init__Swapped(self) ==
    [self EXCEPT !.required_model_stats = @ \o <<"mean">>,
                 !.required_reference_stats = @ \o <<"value">>]

RatioComparator__init__(self) ==
    [self EXCEPT !.required_model_stats = @ \o <<"value">>,
                 !.required_reference_stats = @ \o <<"mean">>]

ZComparator__init__NoStd(self) ==
    [self EXCEPT !.required_model_stats = @ \o <<"value">>,
                 !.required_reference_stats = @ \o <<"mean">>]

ZComparator__init__(self) ==
    [self EXCEPT !.required_model_stats = @ \o <<"value">>,
                 !.required_reference_stats = @ \o <<"mean", "std">>]

\* Kind(): the base constructor runs first, then the subclass appends.
New(kind) ==
    IF kind = "RatioComparator"
    THEN RatioComparator__init__(Comparator__init__(kind))
    ELSE ZComparator__init__(Comparator__init__(kind))

score_type(kind) ==
    IF kind = "RatioComparator" THEN "RatioScore" ELSE "ZScore"

\* RatioComparator.compute: both lookups, then m_value + 0.0, then the division.
RatioComputeNoFloat(self, v) ==
    IF "value" \notin DOMAIN self.model_stats.bag THEN Raised("KeyError", 0)
    ELSE IF "mean" \notin DOMAIN self.reference_stats.bag THEN Raised("KeyError", 0)
    ELSE LET m_value == self.model_stats.bag["value"]
             r_mean == self.reference_stats.bag["mean"]
         IN  IF IsZero(r_mean) THEN Raised("ZeroDivisionError", 0)
             ELSE Returned(PyDiv(v, m_value, r_mean), 1)

RatioCompute(self, v) ==
    IF "value" \notin DOMAIN self.model_stats.bag THEN Raised("KeyError", 0)
    ELSE IF "mean" \notin DOMAIN self.reference_stats.bag THEN Raised("KeyError", 0)
    ELSE LET m_value == self.model_stats.bag["value"]
             r_mean == self.reference_stats.bag["mean"]
             num == PyAdd(m_value, PyFloat(0, 1))
         IN  IF IsZero(r_mean) THEN Raised("ZeroDivisionError", 1)
             ELSE Returned(PyDiv(v, num, r_mean), 2)

\* ZComparator.compute: three lookups, then the subtraction, then the division.
ZComputeOnSharedStats(self, v) ==
    LET held == cmp[Main]
    IN  IF held.kind = "none" \/ ~held.model_stats.assigned
        THEN Raised("AttributeError", 0)
        ELSE LET m_value == held.model_stats.bag["value"]
                 r_mean == held.reference_stats.bag["mean"]
                 r_std == held.reference_stats.bag["std"]
                 diff == PySub(m_value, r_mean)
             IN  IF IsZero(r_std) THEN Raised("ZeroDivisionError", 1)
                 ELSE Returned(PyDiv(v, diff, r_std), 2)

ZCompute(self, v) ==
    IF "value" \notin DOMAIN self.model_stats.bag THEN Raised("KeyError", 0)
    ELSE IF "mean" \notin DOMAIN self.reference_stats.bag THEN Raised("KeyError", 0)
    ELSE IF "std" \notin DOMAIN self.reference_stats.bag THEN Raised("KeyError", 0)
    ELSE LET m_value == self.model_stats.bag["value"]
             r_mean == self.reference_stats.bag["mean"]
             r_std == self.reference_stats.bag["std"]
             diff == PySub(m_value, r_mean)
         IN  IF IsZero(r_std) THEN Raised("ZeroDivisionError", 1)
             ELSE Returned(PyDiv(v, diff, r_std), 2)

\* self.compute(), dispatched on the object's class.
Compute(self, v) ==
    IF self.kind = "RatioComparator" THEN RatioCompute(self, v) ELSE ZCompute(self, v)

Range(s) == {s[i] : i \in DOMAIN s}

\* Comparator.assign: stores the two bags in the object.
Assign(self, model_stats, reference_stats) ==
    [self EXCEPT !.model_stats = Stats(model_stats),
                 !.reference_stats = Stats(reference_stats)]

\* Comparator.judge: checks the required names, computes, wraps the value
\* in the class's score_type.  An exception of compute() propagates.
Judge(self, v) ==
    IF \/ \E k \in Range(self.required_model_stats) :
              k \notin DOMAIN self.model_stats.bag
       \/ \E k \in Range(self.required_reference_stats) :
              k \notin DOMAIN self.reference_stats.bag
    THEN Raised("MissingStatisticError", 0)
    ELSE LET r == Compute(self, v)
         IN  IF r.kind = "raise" THEN r
             ELSE [kind |-> "score", type |-> score_type(self.kind),
                   score |-> r.val, arith |-> r.arith]


----------------------------------------------------------------------------
(* Inputs of the comparators *)

StatValues ==
    {PyInt(i) : i \in -MaxStat .. MaxStat} \cup {PyFloat(i, 1) : i \in -MaxStat .. MaxStat}

\* The statistics bags over a set of names: any subset of the names present.
BagsOver(names, values) == UNION {[S -> values] : S \in SUBSET names}

ModelBags == BagsOver({"value"}, StatValues)
ReferenceBags == BagsOver({"mean", "std"}, StatValues)

Tasks == {1, 2}
TaskValues == {PyInt(i) : i \in 1 .. MaxTaskStat}
TaskBags ==
    {[model |-> m, reference |-> r] :
        m \in [{"value"} -> TaskValues], r \in [{"mean", "std"} -> TaskValues]}
NoBags == [model |-> <<>>, reference |-> <<>>]

BaseStats == [required_model_stats |-> <<>>, required_reference_stats |-> <<>>]

----------------------------------------------------------------------------
(* The parts of the state a specification does not use stay as they start. *)

TasksOff ==
    /\ shared = FALSE
    /\ pc = [t \in Tasks |-> "off"]
    /\ own = [t \in Tasks |-> NoBags]
    /\ res = [t \in Tasks |-> NoOut]

ComparatorsOff ==
    /\ py = 3
    /\ classStats = BaseStats
    /\ cmp = [i \in Instances |-> NoObj]
    /\ out = NoOut
    /\ TasksOff

----------------------------------------------------------------------------
(* Operations on comparator objects *)

\* i = Kind(): a new object; the class and the other objects are not touched.
Construct(i, kind) ==
    /\ cmp[i].kind = "none"
    /\ cmp' = [cmp EXCEPT ![i] = New(kind)]
    /\ UNCHANGED <<py, classStats, out, shared, pc, own, res>>
    /\ UNCHANGED <<convVars, cliVars>>

\* cmp[i].assign(model_stats, reference_stats).  The sequential client
\* constructs one object per comparison, so it assigns to a fresh object.
DoAssign(i) ==
    /\ cmp[i].kind # "none"
    /\ ~cmp[i].model_stats.assigned
    /\ \E model_stats \in ModelBags, reference_stats \in ReferenceBags :
           cmp' = [cmp EXCEPT ![i] = Assign(@, model_stats, reference_stats)]
    /\ UNCHANGED <<py, classStats, out, shared, pc, own, res>>
    /\ UNCHANGED <<convVars, cliVars>>

\* cmp[i].judge() on the bags assigned last.
DoJudge(i) ==
    /\ cmp[i].kind # "none"
    /\ cmp[i].model_stats.assigned
    /\ out.kind = "none"
    /\ out' = Judge(cmp[i], py)
    /\ UNCHANGED <<py, classStats, cmp, shared, pc, own, res>>
    /\ UNCHANGED <<convVars, cliVars>>

\* The sequential client: one comparator object, constructed, assigned and judged.
Init ==
    /\ py \in {2, 3}
    /\ classStats = BaseStats
    /\ cmp = [i \in Instances |-> NoObj]
    /\ out = NoOut
    /\ TasksOff
    /\ zin = [type |-> "none"] /\ params = [given |-> FALSE] /\ conv = NoOut
    /\ sys_path = <<>> /\ environ = [set |-> FALSE] /\ config_root = [abs |-> FALSE, comps |-> <<>>]
    /\ directory = [abs |-> FALSE, comps |-> <<>>] /\ before = <<>> /\ preps = 0 /\ mpc = "off"

Next ==
    \/ \E kind \in Kinds : Construct(Main, kind)
    \/ DoAssign(Main)
    \/ DoJudge(Main)

Spec == Init /\ [][Next]_vars

----------------------------------------------------------------------------
(* Two tasks, each running assign(own bags) and then compute() with no      *)
(* synchronization, on one shared object or on an object each.              *)

Bound(t) == IF shared THEN Main ELSE t

TaskAssign(t) ==
    /\ pc[t] = "start"
    /\ cmp[Bound(t)].kind # "none"
    /\ cmp' = [cmp EXCEPT ![Bound(t)] = Assign(@, own[t].model, own[t].reference)]
    /\ pc' = [pc EXCEPT ![t] = "assigned"]
    /\ UNCHANGED <<py, classStats, out, shared, own, res>>
    /\ UNCHANGED <<convVars, cliVars>>

TaskCompute(t) ==
    /\ pc[t] = "assigned"
    /\ res' = [res EXCEPT ![t] = Compute(cmp[Bound(t)], py)]
    /\ pc' = [pc EXCEPT ![t] = "done"]
    /\ UNCHANGED <<py, classStats, cmp, out, shared, own>>
    /\ UNCHANGED <<convVars, cliVars>>

InitTasks ==
    /\ py \in {2, 3}
    /\ classStats = BaseStats
    /\ cmp = [i \in Instances |-> NoObj]
    /\ out = NoOut
    /\ shared \in BOOLEAN
    /\ pc = [t \in Tasks |-> "start"]
    /\ own \in [Tasks -> TaskBags]
    /\ res = [t \in Tasks |-> NoOut]
    /\ zin = [type |-> "none"] /\ params = [given |-> FALSE] /\ conv = NoOut
    /\ sys_path = <<>> /\ environ = [set |-> FALSE] /\ config_root = [abs |-> FALSE, comps |-> <<>>]
    /\ directory = [abs |-> FALSE, comps |-> <<>>] /\ before = <<>> /\ preps = 0 /\ mpc = "off"

NextTasks ==
    \/ \E i \in Instances, kind \in Kinds : Construct(i, kind)
    \/ \E t \in Tasks : TaskAssign(t)
    \/ \E t \in Tasks : TaskCompute(t)

SpecTasks == InitTasks /\ [][NextTasks]_vars

----------------------------------------------------------------------------
(* The converter *)

\* A Score: its type tag and its raw value (.score).
Score(type, raw) == [kind |-> "score", type |-> type, score |-> raw]

\* Z.score as the comparison reads it: a bool compares as the int 1 or 0.
ScoreNumber(Z) ==
    IF Z.type = "BooleanScore" THEN PyInt(IF Z.score THEN 1 ELSE 0) ELSE Z.score

\* The default of the params argument.
DefaultParams == [k \in {"thresh"} |-> PyInt(2)]

ZScoreToBooleanScoreStrict(Z, p) ==
    LET pr == IF p.given THEN p.map ELSE DefaultParams
    IN  IF "thresh" \notin DOMAIN pr THEN Raised("KeyError", 0)
        ELSE LET thresh == pr["thresh"]
                 boolean == /\ ~PyLe(ScoreNumber(Z), PyNeg(thresh))
                            /\ PyLe(ScoreNumber(Z), thresh)
             IN  Score("BooleanScore", boolean)

\* ZScoreToBooleanScore(self, Z, params): p says whether params was passed.
ZScoreToBooleanScore(Z, p) ==
    LET pr == IF p.given THEN p.map ELSE DefaultParams
    IN  IF "thresh" \notin DOMAIN pr THEN Raised("KeyError", 0)
        ELSE LET thresh == pr["thresh"]
                 boolean == /\ PyLe(PyNeg(thresh), ScoreNumber(Z))
                            /\ PyLe(ScoreNumber(Z), thresh)
             IN  Score("BooleanScore", boolean)

ScoreValues == {PyFloat(i, 2) : i \in -MaxScore .. MaxScore}
Scores ==
    {[type |-> t, score |-> x] : t \in {"ZScore", "RatioScore"}, x \in ScoreValues}
        \cup {[type |-> "BooleanScore", score |-> b] : b \in BOOLEAN}

ThreshValues ==
    {PyInt(i) : i \in -1 .. MaxThresh} \cup {PyFloat(i, 2) : i \in 0 .. 2 * MaxThresh}
ParamMaps ==
    {[k \in S |-> IF k = "thresh" THEN th ELSE PyInt(1)] :
        S \in SUBSET {"thresh", "verbose"}, th \in ThreshValues}
Params == {[given |-> FALSE]} \cup {[given |-> TRUE, map |-> m] : m \in ParamMaps}

\* One call of the converter.
Convert ==
    /\ conv.kind = "none"
    /\ conv' = ZScoreToBooleanScore(zin, params)
    /\ UNCHANGED <<zin, params>>
    /\ UNCHANGED <<cmpVars, cliVars>>

InitConvert ==
    /\ ComparatorsOff
    /\ zin \in Scores
    /\ params \in Params
    /\ conv = NoOut
    /\ sys_path = <<>> /\ environ = [set |-> FALSE] /\ config_root = [abs |-> FALSE, comps |-> <<>>]
    /\ directory = [abs |-> FALSE, comps |-> <<>>] /\ before = <<>> /\ preps = 0 /\ mpc = "off"

NextConvert == Convert

SpecConvert == InitConvert /\ [][NextConvert]_vars

----------------------------------------------------------------------------
(* The module search path.  A path is [abs, comps]: whether it starts at    *)
(* the file system's root, and its components in order; two paths are the   *)
(* same string exactly when they are the same record.                       *)

Path(abs, comps) == [abs |-> abs, comps |-> comps]

Cwd == <<"home", "proj">>                        \* os.getcwd()
\* The file system's symbolic links: /home/link -> /home/proj.
Symlinks == {[link |-> <<"home", "link">>, target |-> <<"home", "proj">>]}

\* os.path.join(a, b): an absolute b replaces a; otherwise b follows a.
join(a, b) == IF b.abs THEN b ELSE Path(a.abs, a.comps \o b.comps)

\* The components left of an absolute path once ".", ".." and the symbolic
\* links are resolved, component by component.
RECURSIVE Resolve(_, _)
Resolve(stack, rest) ==
    IF rest = <<>> THEN stack
    ELSE LET c == Head(rest)
             pushed == Append(stack, c)
         IN  IF c = "." THEN Resolve(stack, Tail(rest))
             ELSE IF c = ".."
             THEN Resolve(IF stack = <<>> THEN stack
                          ELSE SubSeq(stack, 1, Len(stack) - 1), Tail(rest))
             ELSE IF \E l \in Symlinks : l.link = pushed
             THEN Resolve((CHOOSE l \in Symlinks : l.link = pushed).target, Tail(rest))
             ELSE Resolve(pushed, Tail(rest))

\* os.path.realpath(p): absolute (from the working directory), canonical.
realpath(p) == Path(TRUE, Resolve(<<>>, (IF p.abs THEN <<>> ELSE Cwd) \o p.comps))

\* The root prep computes: realpath(join(path, config.get('root','path'))).
PrepRoot == realpath(join(directory, config_root))

\* The root cleanup computes: join(path, config.get('root','path')).
CleanupRoot == join(directory, config_root)

\* prep(config, path): sets SCIDASH_HOME and puts the root in front of
\* sys.path unless it is there already.
prep ==
    /\ mpc \in {"parsed", "prepped"}
    /\ preps < MaxPreps
    /\ environ' = [set |-> TRUE, value |-> PrepRoot]
    /\ sys_path' = IF sys_path[1] # PrepRoot THEN <<PrepRoot>> \o sys_path ELSE sys_path
    /\ preps' = preps + 1
    /\ mpc' = "prepped"
    /\ UNCHANGED <<config_root, directory, before>>
    /\ UNCHANGED <<cmpVars, convVars>>

\* The rest of run(): the imports and the judging, which leave sys.path alone.
run ==
    /\ mpc = "prepped"
    /\ mpc' = "ran"
    /\ UNCHANGED <<sys_path, environ, config_root, directory, before, preps>>
    /\ UNCHANGED <<cmpVars, convVars>>

\* cleanup(config, path): removes the root from sys.path if it is in front.
cleanup ==
    /\ mpc = "ran"
    /\ sys_path' = IF sys_path[1] = CleanupRoot THEN Tail(sys_path) ELSE sys_path
    /\ mpc' = "done"
    /\ UNCHANGED <<environ, config_root, directory, before, preps>>
    /\ UNCHANGED <<cmpVars, convVars>>

SitePackages == Path(TRUE, <<"usr", "lib">>)
ConfigRoots ==
    {Path(FALSE, <<".">>), Path(FALSE, <<"sub">>), Path(FALSE, <<"..">>),
     Path(TRUE, <<"opt", "lib">>)}
Directories ==
    {Path(TRUE, Cwd), Path(FALSE, <<".">>), Path(TRUE, <<"home", "link">>),
     Path(TRUE, <<"home", "proj", "sub">>)}
\* sys.path at start: the script's directory (or ''), then the installation's.
SysPaths ==
    {<<h>> \o t :
        h \in {Path(FALSE, <<>>), Path(TRUE, Cwd), Path(TRUE, <<"opt", "lib">>)},
        t \in {<<SitePackages>>, <<Path(TRUE, Cwd), SitePackages>>}}

\* main('run', '--directory', directory) after parse(file_path).
InitCli ==
    /\ ComparatorsOff
    /\ zin = [type |-> "none"] /\ params = [given |-> FALSE] /\ conv = NoOut
    /\ config_root \in ConfigRoots
    /\ directory \in Directories
    /\ sys_path \in SysPaths
    /\ before = sys_path
    /\ environ = [set |-> FALSE]
    /\ preps = 0
    /\ mpc = "parsed"

NextCli == prep \/ run \/ cleanup

SpecCli == InitCli /\ [][NextCli]_vars

----------------------------------------------------------------------------
(* Properties of judge() under Spec *)

Judged == out.kind # "none"
MainKind == cmp[Main].kind
mbag == cmp[Main].model_stats.bag
rbag == cmp[Main].reference_stats.bag

\* A name the comparator reads is absent from the bag it is read from.
SomeMissing ==
    \/ "value" \notin DOMAIN mbag
    \/ "mean" \notin DOMAIN rbag
    \/ MainKind = "ZComparator" /\ "std" \notin DOMAIN rbag

\* The denominator of the comparator's division is zero.
ZeroDenominator ==
    IF MainKind = "RatioComparator" THEN IsZero(rbag["mean"]) ELSE IsZero(rbag["std"])

\* x = a / b exactly, as rationals.
IsQuotient(x, a, b) == x.n * b.n * a.d = a.n * x.d * b.d

\* C1: for either comparator, when a required name is absent from its bag,
\* judge() ends in MissingStatisticError (not in a KeyError), gives no Score,
\* and no arithmetic of compute() has run.
C1_MissingStatisticIsTyped ==
    (Judged /\ SomeMissing) =>
        /\ out.kind = "raise"
        /\ out.exc = "MissingStatisticError"
        /\ out.arith = 0

C1_Witness_StdMissing ==
    /\ Judged
    /\ MainKind = "ZComparator"
    /\ DOMAIN mbag = {"value"}
    /\ DOMAIN rbag = {"mean"}
    /\ out.kind = "raise" /\ out.exc = "MissingStatisticError"

\* C2: a zero denominator (reference mean for RatioComparator, reference std
\* for ZComparator) ends in UndefinedRatioError, respectively
\* UndefinedZScoreError, for every model value; no value or Score comes back.
C2_ZeroDenominatorIsTyped ==
    (Judged /\ ~SomeMissing /\ ZeroDenominator) =>
        /\ out.kind = "raise"
        /\ out.exc = IF MainKind = "RatioComparator"
                     THEN "UndefinedRatioError" ELSE "UndefinedZScoreError"

\* C3: with 'value' and a nonzero 'mean' present, RatioComparator gives a
\* RatioScore holding exactly value / mean, never a truncated quotient, also
\* for two ints.
C3_RatioIsTrueQuotient ==
    (Judged /\ MainKind = "RatioComparator" /\ ~SomeMissing /\ ~ZeroDenominator) =>
        /\ out.kind = "score"
        /\ out.type = "RatioScore"
        /\ IsQuotient(out.score, mbag["value"], rbag["mean"])

C3_Witness_IntsUnderPython2 ==
    /\ Judged
    /\ py = 2
    /\ MainKind = "RatioComparator"
    /\ ~SomeMissing
    /\ mbag["value"] = PyInt(1)
    /\ rbag["mean"] = PyInt(2)
    /\ out.kind = "score"
    /\ out.score = PyFloat(1, 2)

\* C4: with 'value', 'mean' and a nonzero 'std' present, ZComparator gives a
\* ZScore holding exactly (value - mean) / std, never a truncated quotient,
\* also for three ints (value 4, mean 3, std 2 gives one half, not 0).
C4_ZIsTrueQuotient ==
    (Judged /\ MainKind = "ZComparator" /\ ~SomeMissing /\ ~ZeroDenominator) =>
        /\ out.kind = "score"
        /\ out.type = "ZScore"
        /\ IsQuotient(out.score,
                      Num("float", mbag["value"].n * rbag["mean"].d
                                     - rbag["mean"].n * mbag["value"].d,
                                   mbag["value"].d * rbag["mean"].d),
                      rbag["std"])

----------------------------------------------------------------------------
(* Properties of the converter under SpecConvert *)

Converted == conv.kind # "none"
HasThresh == params.given /\ "thresh" \in DOMAIN params.map

\* C5: for a ZScore z and a threshold thresh >= 0, the converter gives a
\* BooleanScore that is true exactly when |z| <= thresh; z = thresh and
\* z = -thresh pass.
C5_InclusiveInterval ==
    (Converted /\ zin.type = "ZScore" /\ HasThresh /\ params.map["thresh"].n >= 0) =>
        LET z == zin.score
            th == params.map["thresh"]
        IN  /\ conv.kind = "score"
            /\ conv.type = "BooleanScore"
            /\ conv.score = (z.n * z.n * th.d * th.d <= th.n * th.n * z.d * z.d)

C5_Witness_LowerBoundary ==
    /\ Converted
    /\ zin.type = "ZScore"
    /\ HasThresh
    /\ params.map["thresh"].n > 0
    /\ zin.score.n < 0
    /\ zin.score.n * params.map["thresh"].d = -params.map["thresh"].n * zin.score.d
    /\ conv.kind = "score"
    /\ conv.score = TRUE

\* C6: for every ZScore, converting with an empty parameter map, with a map
\* of unrecognized keys only, or with no map gives what converting with
\* {thresh: 2} gives; a missing 'thresh' never fails.
C6_ThreshDefaultsToTwo ==
    (Converted /\ zin.type = "ZScore" /\ ~HasThresh) =>
        /\ conv.kind = "score"
        /\ conv.type = "BooleanScore"
        /\ conv.score = (zin.score.n * zin.score.n <= 4 * zin.score.d * zin.score.d)

\* C7: on a Score that is not a ZScore the converter fails with
\* IncompatibleScoreTypeError; it gives a BooleanScore only for a ZScore.
\* (Stated for the calls in which a threshold is at hand, passed or default.)
C7_RejectsOtherScoreTypes ==
    (Converted /\ zin.type # "ZScore" /\ (HasThresh \/ ~params.given)) =>
        /\ conv.kind = "raise"
        /\ conv.exc = "IncompatibleScoreTypeError"

----------------------------------------------------------------------------
(* Properties of the objects and the two tasks under SpecTasks *)

RequiredOf(kind) ==
    [required_model_stats |-> BaseStats.required_model_stats \o <<"value">>,
     required_reference_stats |->
        BaseStats.required_reference_stats
            \o (IF kind = "RatioComparator" THEN <<"mean">> ELSE <<"mean", "std">>)]

\* C8: from its construction on, through every assign and compute, an
\* object's required sets are the base's entries followed by 'value' and by
\* 'mean' (RatioComparator) or 'mean', 'std' (ZComparator); constructing an
\* object changes neither another object's sets nor the class's.
C8_RequiredStatsFixed ==
    /\ classStats = BaseStats
    /\ \A i \in Instances :
           cmp[i].kind # "none" =>
               /\ cmp[i].required_model_stats = RequiredOf(cmp[i].kind).required_model_stats
               /\ cmp[i].required_reference_stats
                      = RequiredOf(cmp[i].kind).required_reference_stats

C8_Witness_BothKindsUsed ==
    /\ cmp[1].kind = "RatioComparator"
    /\ cmp[2].kind = "ZComparator"
    /\ ~shared
    /\ \A t \in Tasks : pc[t] = "done"

\* What assign(bags) and then compute() give on an object of this kind that
\* nothing else uses.
Alone(kind, bags) == Compute(Assign(New(kind), bags.model, bags.reference), py)

\* C9: when each task has its own object, compute() gives every task the
\* value computed from its own bags, in every interleaving; on a shared
\* object there is an interleaving in which a task gets the value computed
\* from the other task's bags (C9_Witness_SharedObjectInterferes).
C9_OwnObjectIsolated ==
    \A t \in Tasks :
        (~shared /\ pc[t] = "done") => res[t] = Alone(cmp[Bound(t)].kind, own[t])

C9_Witness_SharedObjectInterferes ==
    /\ shared
    /\ pc[1] = "done"
    /\ res[1] = Alone(cmp[Main].kind, own[2])
    /\ res[1] # Alone(cmp[Main].kind, own[1])

----------------------------------------------------------------------------
(* Properties of the search path under SpecCli *)

\* C10: cleanup after prep leaves sys.path as it was before prep, for every
\* root and directory; and prep called again with the same arguments does
\* not insert the root again.
C10_CleanupUndoesPrep ==
    /\ mpc = "done" => sys_path = before
    /\ Len(sys_path) <= Len(before) + 1
============================================================================
